---- MODULE Spec2Model ----
(***************************************************************************)
(* Password authentication in FoalTS: the login handler of the example     *)
(* application (AuthController.login), the e-mail authenticator of the     *)
(* password package (validate / authenticate) and the digest verifier      *)
(* they both rely on.                                                      *)
(*                                                                         *)
(* Text is modelled as a sequence of chunks.  A chunk is either one of the *)
(* reserved characters "$", "@", "." or a run of word characters that      *)
(* contains none of them; the text is the concatenation of its chunks.     *)
(***************************************************************************)
EXTENDS Integers, Sequences, FiniteSets, TLC

VARIABLES
  store,     \* the persisted user rows (owned by the persistence layer)
  att,       \* one record per authentication attempt (its position and locals)
  sessions,  \* the sessions the session store has saved
  vpc,       \* position of the stand-alone verifier call
  vPlain,    \* its plaintext argument
  vStored,   \* its stored-digest argument
  vResult,   \* what it produced
  val,       \* the stand-alone validation call: its argument and what it gave
  rest       \* one request to a RestController and the collection behind it

vars == <<store, att, sessions, vpc, vPlain, vStored, vResult, val, rest>>

(***************************************************************************)
(* Bounds                                                                  *)
(***************************************************************************)
NumAttempts == 2     \* authentication attempts in flight together
MaxDigestLen == 7    \* longest stored digest (in chunks) given to the verifier

Attempts == 1..NumAttempts

(***************************************************************************)
(* Text helpers                                                            *)
(***************************************************************************)
RECURSIVE SplitFrom(_, _, _, _)
\* String.prototype.split: scan s from position i, cur is the segment being
\* built, acc the finished segments.  "a$$b" gives <<a, <<>>, b>>; a text
\* with no separator gives the one-segment list <<s>>.
SplitFrom(s, sep, i, cur) ==
  IF i > Len(s) THEN <<cur>>
  ELSE IF s[i] = sep THEN <<cur>> \o SplitFrom(s, sep, i + 1, <<>>)
  ELSE SplitFrom(s, sep, i + 1, Append(cur, s[i]))

Split(s, sep) == SplitFrom(s, sep, 1, <<>>)

Contains(s, c) == \E i \in 1..Len(s) : s[i] = c

IsDigitChunk(c) == c \in {"0", "1", "2"}

DigitValue(c) == CASE c = "0" -> 0 [] c = "1" -> 1 [] c = "2" -> 2 [] OTHER -> 0

IsDigits(s) == Len(s) > 0 /\ \A i \in 1..Len(s) : IsDigitChunk(s[i])

IsWord(s) == Len(s) > 0 /\ \A i \in 1..Len(s) : s[i] \notin {"$", "@", "."}

RECURSIVE ParseInt(_)
\* decimal text to number
ParseInt(s) ==
  IF Len(s) = 0 THEN 0
  ELSE 10 * ParseInt(SubSeq(s, 1, Len(s) - 1)) + DigitValue(s[Len(s)])

ChunkCode(c) ==
  CASE c = "foobar" -> 0
    [] c = "wrongPassword" -> 1
    [] c = "1" -> 1
    [] c = "a" -> 2
    [] c = "2" -> 2
    [] OTHER -> 3

RECURSIVE TextCode(_)
TextCode(s) == IF Len(s) = 0 THEN 0 ELSE ChunkCode(Head(s)) + TextCode(Tail(s))

(***************************************************************************)
(* The stored digest format and the verifier                               *)
(***************************************************************************)
SEP == "$"
PBKDF2_SHA256 == "pbkdf2_sha256"

\* Faulty variants: the two messages reworded.
GenericFormatMessage_Reworded == "Password format is not supported."
Pbkdf2FormatMessage_Reworded == "Password format is incorrect or not supported."

GenericFormatMessage == "Password format is incorrect or not supported."
Pbkdf2FormatMessage == "Password format is incorrect (pbkdf2)."

\* The derived key of a plaintext under an iteration count and a salt: a
\* deterministic function of the three into the hash alphabet {"a", "1"}.
DeriveKey(plain, iterations, salt) ==
  <<IF (TextCode(plain) + iterations + TextCode(salt)) % 2 = 0 THEN "a" ELSE "1">>

\* A digest as the generator of the same format writes it.
MakeDigest(plain, iterText, salt) ==
  <<PBKDF2_SHA256, SEP>> \o iterText \o <<SEP>> \o salt \o <<SEP>>
    \o DeriveKey(plain, ParseInt(iterText), salt)

VerifyOk(b) == [kind |-> "ok", matched |-> b, message |-> ""]
VerifyError(m) == [kind |-> "error", matched |-> FALSE, message |-> m]

\* verify(secretPlaintext, storedDigest): split on the separator, dispatch on
\* segment 0, check the family's shape, recompute and compare.
VerifyPassword(plain, stored) ==
  LET segs == Split(stored, SEP) IN
  IF Len(segs) < 2 \/ segs[1] # <<PBKDF2_SHA256>>
  THEN VerifyError(GenericFormatMessage)
  ELSE IF ~(Len(segs) = 4 /\ IsDigits(segs[2]) /\ IsWord(segs[3]) /\ IsWord(segs[4]))
  THEN VerifyError(Pbkdf2FormatMessage)
  ELSE VerifyOk(DeriveKey(plain, ParseInt(segs[2]), segs[3]) = segs[4])

(***************************************************************************)
(* Credentials: the request body / raw credentials object.  An object is a *)
(* record over the key names the model draws from; a key the object does   *)
(* not have holds Absent.                                                  *)
(***************************************************************************)
StringValue(s) == [t |-> "string", v |-> s]
NumberValue == [t |-> "number", v |-> <<"1">>]
Absent == [t |-> "absent", v |-> <<>>]

KeyOrder == <<"email", "password", "foo", "bar">>

Has(body, k) == body[k].t # "absent"

Credentials(e, p, f, b) == [email |-> e, password |-> p, foo |-> f, bar |-> b]

NoBody == Credentials(Absent, Absent, Absent, Absent)

\* format "email": local-part "@" domain, the domain being dot-separated
\* non-empty labels.
IsEmailFormat(s) ==
  LET parts == Split(s, "@") IN
  /\ Len(parts) = 2
  /\ Len(parts[1]) > 0
  /\ \A i \in 1..Len(parts[1]) : parts[1][i] # "$"
  /\ LET labels == Split(parts[2], ".") IN
       \A i \in 1..Len(labels) : IsWord(labels[i])

Violation(keyword, path, param) ==
  [keyword |-> keyword, dataPath |-> path, param |-> param]

\* Faulty variant: the schema without its "required" list.
LoginBodySchema_NothingRequired ==
  [ additionalProperties |-> FALSE,
    properties |-> [ email    |-> [type |-> "string", format |-> "email"],
                     password |-> [type |-> "string", format |-> ""] ],
    required |-> <<>>,
    type |-> "object" ]

\* Faulty variant: the password property carries no type.
LoginBodySchema_UntypedPassword ==
  [ additionalProperties |-> FALSE,
    properties |-> [ email    |-> [type |-> "string", format |-> "email"],
                     password |-> [type |-> "", format |-> ""] ],
    required |-> <<"email", "password">>,
    type |-> "object" ]

\* Faulty variant: additional properties are let through.
LoginBodySchema_AdditionalAllowed ==
  [ additionalProperties |-> TRUE,
    properties |-> [ email    |-> [type |-> "string", format |-> "email"],
                     password |-> [type |-> "string", format |-> ""] ],
    required |-> <<"email", "password">>,
    type |-> "object" ]

\* Faulty variant: a third property is required.
LoginBodySchema_RequiresFoo ==
  [ additionalProperties |-> TRUE,
    properties |-> [ email    |-> [type |-> "string", format |-> "email"],
                     password |-> [type |-> "string", format |-> ""] ],
    required |-> <<"email", "password", "foo">>,
    type |-> "object" ]

\* The schema given to @ValidateBody on login.
LoginBodySchema ==
  [ additionalProperties |-> FALSE,
    properties |-> [ email    |-> [type |-> "string", format |-> "email"],
                     password |-> [type |-> "string", format |-> ""] ],
    required |-> <<"email", "password">>,
    type |-> "object" ]

\* The schema of AbstractEmailAuthenticator.validate.
EmailCredentialsSchema ==
  [ additionalProperties |-> FALSE,
    properties |-> [ email    |-> [type |-> "string", format |-> "email"],
                     password |-> [type |-> "string", format |-> ""] ],
    required |-> <<"email", "password">>,
    type |-> "object" ]

RequiredViolations(schema, body) ==
  LET missing == SelectSeq(schema.required, LAMBDA k : ~Has(body, k)) IN
  [i \in 1..Len(missing) |-> Violation("required", <<>>, missing[i])]

AdditionalViolations(schema, body) ==
  LET extra == SelectSeq(KeyOrder,
                 LAMBDA k : Has(body, k) /\ k \notin DOMAIN schema.properties) IN
  IF schema.additionalProperties THEN <<>>
  ELSE [i \in 1..Len(extra) |-> Violation("additionalProperties", <<>>, extra[i])]

PropertyViolations(schema, body, k) ==
  IF k \notin DOMAIN schema.properties \/ ~Has(body, k) THEN <<>>
  ELSE IF schema.properties[k].type = "string" /\ body[k].t # "string"
  THEN << Violation("type", <<k>>, "string") >>
  ELSE IF schema.properties[k].format = "email" /\ ~IsEmailFormat(body[k].v)
  THEN << Violation("format", <<k>>, "email") >>
  ELSE <<>>

RECURSIVE PropertiesViolations(_, _, _)
PropertiesViolations(schema, body, i) ==
  IF i > Len(KeyOrder) THEN <<>>
  ELSE PropertyViolations(schema, body, KeyOrder[i])
         \o PropertiesViolations(schema, body, i + 1)

\* validate(raw): every rule is evaluated and every violation collected.
Validate(schema, body) ==
  RequiredViolations(schema, body)
    \o AdditionalViolations(schema, body)
    \o PropertiesViolations(schema, body, 1)

(***************************************************************************)
(* The persisted users and the lookup                                      *)
(***************************************************************************)
JohnEmail == <<"john", "@", "foalts", ".", "org">>
JackEmail == <<"jack", "@", "foalts", ".", "org">>
SamEmail == <<"sam", "@", "foalts", ".", "org">>
Jack2Email == <<"jack2", "@", "foalts", ".", "org">>
MalformedEmail == <<"johnjack", ".", "com">>

Password == <<"foobar">>
WrongPassword == <<"wrongPassword">>

User(id, email, password, username) ==
  [id |-> id, email |-> email, password |-> password, roles |-> <<>>,
   username |-> username]

\* "No row": what findOne resolves with when nothing matches (undefined).
NoUser == User(0, <<>>, <<>>, "")

\* The rows the authenticator's tests save: john with a well-formed digest
\* of Password, jack with a digest of no recognized format, sam with a
\* pbkdf2 digest whose parameter segments are malformed.
Fixture ==
  { User(1, JohnEmail, MakeDigest(Password, <<"1">>, <<"a">>), "John"),
    User(2, JackEmail, <<"bcrypt_mypassword">>, "Jack"),
    User(3, SamEmail, <<PBKDF2_SHA256, SEP, "hello_world">>, "Sam") }

\* Faulty variant: the lookup selects only the columns the handler reads.
FindOne_DropsAttributes(rows, email) ==
  IF email.t = "string" /\ \E u \in rows : u.email = email.v
  THEN [(CHOOSE u \in rows : u.email = email.v) EXCEPT !.username = ""]
  ELSE NoUser

\* getRepository(User).findOne({ email }): the row whose unique email column
\* equals the given value, or none.
FindOne(rows, email) ==
  IF email.t = "string" /\ \E u \in rows : u.email = email.v
  THEN CHOOSE u \in rows : u.email = email.v
  ELSE NoUser

\* What a failing lookup call rejects with.
LookupErrors == {"QueryFailedError", "QueryTimeoutError"}

(***************************************************************************)
(* How an attempt ends                                                     *)
(***************************************************************************)
NoOutcome ==
  [kind |-> "none", value |-> "none", user |-> NoUser, error |-> "",
   violations |-> <<>>, status |-> 0, location |-> "", cookie |-> 0]

ReturnedNull == [NoOutcome EXCEPT !.kind = "returned", !.value = "null"]

ReturnedUser(u) ==
  [NoOutcome EXCEPT !.kind = "returned", !.value = "user", !.user = u]

Thrown(e) == [NoOutcome EXCEPT !.kind = "thrown", !.error = e]

ThrownValidationError(vs) ==
  [NoOutcome EXCEPT !.kind = "thrown", !.error = "ValidationError",
                    !.violations = vs]

HttpResponseRedirect(path) ==
  [NoOutcome EXCEPT !.kind = "returned", !.value = "response",
                    !.status = 302, !.location = path]

HttpResponseBadRequest(vs) ==
  [NoOutcome EXCEPT !.kind = "returned", !.value = "response",
                    !.status = 400, !.violations = vs]

SetSessionCookie(response, token) == [response EXCEPT !.cookie = token]

Idle ==
  [entry |-> "none", pc |-> "idle", body |-> NoBody, lookups |-> 0,
   verifies |-> 0, lookup |-> "none", fault |-> "", user |-> NoUser,
   verdict |-> "none", session |-> 0, outcome |-> NoOutcome]

Finish(r, out) == [r EXCEPT !.pc = "done", !.outcome = out]

(***************************************************************************)
(* AuthController.login, one definition per stretch of the handler between *)
(* two awaits.  Each maps the attempt's record to its next value.          *)
(***************************************************************************)
\* Faulty variant: a body with violations is answered like invalid credentials.
LoginStart_RedirectsOnViolation(r, body) ==
  LET vs == Validate(LoginBodySchema, body)
      r1 == [r EXCEPT !.entry = "login", !.body = body]
  IN IF Len(vs) > 0
     THEN Finish(r1, HttpResponseRedirect("/login?invalid_credentials=true"))
     ELSE [r1 EXCEPT !.pc = "await_findOne", !.lookups = @ + 1]

\* @ValidateBody runs before the handler body: a body with violations is
\* answered 400 and login is not entered; otherwise findOne is called.
LoginStart(r, body) ==
  LET vs == Validate(LoginBodySchema, body)
      r1 == [r EXCEPT !.entry = "login", !.body = body]
  IN IF Len(vs) > 0
     THEN Finish(r1, HttpResponseBadRequest(vs))
     ELSE [r1 EXCEPT !.pc = "await_findOne", !.lookups = @ + 1]

\* Faulty variant: the "if (!user)" test is missing.
LoginOnFindOne_NoNullCheck(r, user) ==
  [r EXCEPT !.user = user, !.pc = "await_verify", !.verifies = @ + 1]

\* findOne resolved: if (!user) return the redirect; else call verifyPassword.
LoginOnFindOne(r, user) ==
  IF user = NoUser
  THEN Finish(r, HttpResponseRedirect("/login?invalid_credentials=true"))
  ELSE [r EXCEPT !.user = user, !.pc = "await_verify", !.verifies = @ + 1]

\* Faulty variant: a failed lookup is caught and answered like "no user".
LoginOnFindOneError_AsNoUser(r, e) ==
  Finish(r, HttpResponseRedirect("/login?invalid_credentials=true"))

\* findOne rejected: the await throws and nothing catches it.
LoginOnFindOneError(r, e) == Finish(r, Thrown(e))

\* Faulty variant: a mismatch is answered with a redirect of its own.
LoginOnVerify_DistinctRedirect(r, result) ==
  IF result.kind = "error" THEN Finish(r, Thrown(result.message))
  ELSE IF ~result.matched
  THEN Finish(r, HttpResponseRedirect("/login?wrong_password=true"))
  ELSE [r EXCEPT !.pc = "await_session"]

\* Faulty variant: the verifier's answer is awaited but not tested.
LoginOnVerify_IgnoresResult(r, result) ==
  IF result.kind = "error" THEN Finish(r, Thrown(result.message))
  ELSE [r EXCEPT !.pc = "await_session"]

\* Faulty variant: the verifier's rejection is caught and answered like a mismatch.
LoginOnVerify_CatchesError(r, result) ==
  IF result.kind = "error" \/ ~result.matched
  THEN Finish(r, HttpResponseRedirect("/login?invalid_credentials=true"))
  ELSE [r EXCEPT !.pc = "await_session"]

\* verifyPassword settled: a rejection is not caught, false returns the
\* redirect, true goes on to create the session.
LoginOnVerify(r, result) ==
  IF result.kind = "error" THEN Finish(r, Thrown(result.message))
  ELSE IF ~result.matched
  THEN Finish(r, HttpResponseRedirect("/login?invalid_credentials=true"))
  ELSE [r EXCEPT !.pc = "await_session"]

\* createAndSaveSessionFromUser resolved: set the cookie, redirect to "/".
LoginOnSession(r, token) ==
  Finish([r EXCEPT !.session = token],
         SetSessionCookie(HttpResponseRedirect("/"), token))

\* createAndSaveSessionFromUser rejected: not caught.
LoginOnSessionError(r, e) == Finish(r, Thrown(e))

(***************************************************************************)
(* AbstractEmailAuthenticator.authenticate: validate, resolve, verify,     *)
(* decide.                                                                 *)
(***************************************************************************)
AuthenticateStart(r, body) ==
  LET vs == Validate(EmailCredentialsSchema, body)
      r1 == [r EXCEPT !.entry = "authenticate", !.body = body]
  IN IF Len(vs) > 0
     THEN Finish(r1, ThrownValidationError(vs))
     ELSE [r1 EXCEPT !.pc = "await_findOne", !.lookups = @ + 1]

AuthenticateOnFindOne(r, user) ==
  IF user = NoUser
  THEN Finish(r, ReturnedNull)
  ELSE [r EXCEPT !.user = user, !.pc = "await_verify", !.verifies = @ + 1]

AuthenticateOnFindOneError(r, e) == Finish(r, Thrown(e))

AuthenticateOnVerify(r, result) ==
  IF result.kind = "error" THEN Finish(r, Thrown(result.message))
  ELSE IF ~result.matched THEN Finish(r, ReturnedNull)
  ELSE Finish(r, ReturnedUser(r.user))

(***************************************************************************)
(* Actions                                                                 *)
(***************************************************************************)
\* The request bodies / raw credentials the attempts are given.
AttemptBodies ==
  { Credentials(StringValue(e), StringValue(p), Absent, Absent) :
      e \in {JohnEmail, Jack2Email}, p \in {Password, WrongPassword} }
  \cup
  { Credentials(StringValue(e), StringValue(Password), Absent, Absent) :
      e \in {JackEmail, SamEmail} }
  \cup
  { Credentials(Absent, StringValue(Password), Absent, Absent),
    Credentials(StringValue(MalformedEmail), StringValue(Password), Absent, Absent),
    Credentials(StringValue(JohnEmail), NumberValue, Absent, Absent),
    Credentials(StringValue(JohnEmail), StringValue(Password),
                StringValue(<<"bar">>), Absent) }

\* What the lookup and the verifier answered (lookup, fault, verdict),
\* recorded beside the handler's locals by the collaborator's side.
LookupAnswer(u) == IF u = NoUser THEN "empty" ELSE "found"
Verdict(result) ==
  IF result.kind = "error" THEN "error"
  ELSE IF result.matched THEN "match" ELSE "mismatch"

Unchanged_verifier == UNCHANGED <<vpc, vPlain, vStored, vResult, val, rest>>

Login_Begin(a) ==
  /\ att[a].pc = "idle"
  /\ \E body \in AttemptBodies :
       att' = [att EXCEPT ![a] = LoginStart(@, body)]
  /\ UNCHANGED <<store, sessions>>
  /\ Unchanged_verifier

\* Faulty variant: the e-mail to look up is kept in a field of the controller
\* instance, which every request shares (here: the slot of the first one).
Login_FindOneResolves_SharedEmail(a) ==
  /\ att[a].entry = "login"
  /\ att[a].pc = "await_findOne"
  /\ LET u == FindOne(store, att[1].body.email) IN
       att' = [att EXCEPT ![a] =
                 LoginOnFindOne([@ EXCEPT !.lookup = LookupAnswer(u)], u)]
  /\ UNCHANGED <<store, sessions>>
  /\ Unchanged_verifier

Login_FindOneResolves(a) ==
  /\ att[a].entry = "login"
  /\ att[a].pc = "await_findOne"
  /\ LET u == FindOne(store, att[a].body.email) IN
       att' = [att EXCEPT ![a] =
                 LoginOnFindOne([@ EXCEPT !.lookup = LookupAnswer(u)], u)]
  /\ UNCHANGED <<store, sessions>>
  /\ Unchanged_verifier

Login_FindOneRejects(a) ==
  /\ att[a].entry = "login"
  /\ att[a].pc = "await_findOne"
  /\ \E e \in LookupErrors :
       att' = [att EXCEPT ![a] =
                 LoginOnFindOneError([@ EXCEPT !.lookup = "failed", !.fault = e], e)]
  /\ UNCHANGED <<store, sessions>>
  /\ Unchanged_verifier

Login_VerifyResolves(a) ==
  /\ att[a].entry = "login"
  /\ att[a].pc = "await_verify"
  /\ LET res == VerifyPassword(att[a].body.password.v, att[a].user.password) IN
       att' = [att EXCEPT ![a] =
                 LoginOnVerify([@ EXCEPT !.verdict = Verdict(res)], res)]
  /\ UNCHANGED <<store, sessions>>
  /\ Unchanged_verifier

Login_SessionResolves(a) ==
  /\ att[a].entry = "login"
  /\ att[a].pc = "await_session"
  /\ sessions' = sessions \cup {[userId |-> att[a].user.id, token |-> a]}
  /\ att' = [att EXCEPT ![a] = LoginOnSession(@, a)]
  /\ UNCHANGED store
  /\ Unchanged_verifier

Login_SessionRejects(a) ==
  /\ att[a].entry = "login"
  /\ att[a].pc = "await_session"
  /\ att' = [att EXCEPT ![a] = LoginOnSessionError(@, "SessionStoreError")]
  /\ UNCHANGED <<store, sessions>>
  /\ Unchanged_verifier

Authenticate_Begin(a) ==
  /\ att[a].pc = "idle"
  /\ \E body \in AttemptBodies :
       att' = [att EXCEPT ![a] = AuthenticateStart(@, body)]
  /\ UNCHANGED <<store, sessions>>
  /\ Unchanged_verifier

Authenticate_FindOneResolves(a) ==
  /\ att[a].entry = "authenticate"
  /\ att[a].pc = "await_findOne"
  /\ LET u == FindOne(store, att[a].body.email) IN
       att' = [att EXCEPT ![a] =
                 AuthenticateOnFindOne([@ EXCEPT !.lookup = LookupAnswer(u)], u)]
  /\ UNCHANGED <<store, sessions>>
  /\ Unchanged_verifier

Authenticate_FindOneRejects(a) ==
  /\ att[a].entry = "authenticate"
  /\ att[a].pc = "await_findOne"
  /\ \E e \in LookupErrors :
       att' = [att EXCEPT ![a] =
                 AuthenticateOnFindOneError(
                   [@ EXCEPT !.lookup = "failed", !.fault = e], e)]
  /\ UNCHANGED <<store, sessions>>
  /\ Unchanged_verifier

Authenticate_VerifyResolves(a) ==
  /\ att[a].entry = "authenticate"
  /\ att[a].pc = "await_verify"
  /\ LET res == VerifyPassword(att[a].body.password.v, att[a].user.password) IN
       att' = [att EXCEPT ![a] =
                 AuthenticateOnVerify([@ EXCEPT !.verdict = Verdict(res)], res)]
  /\ UNCHANGED <<store, sessions>>
  /\ Unchanged_verifier

NoVerifyResult == [kind |-> "none", matched |-> FALSE, message |-> ""]

\* What a validation call gave: kind says how it ended, value is what the
\* caller goes on with, object is the argument object after the call.
NoValidation ==
  [kind |-> "none", violations |-> <<>>, value |-> NoBody, object |-> NoBody]

ValOff == [pc |-> "off", via |-> "none", given |-> NoBody, result |-> NoValidation]

\* error objects, told apart by reference
NoError == [class |-> "none", ref |-> 0]

NoResponse == [kind |-> "none", class |-> "", content |-> "none", error |-> NoError]

NoCtx == [id |-> 0, body |-> "none"]

EmptyQuery == [foo |-> "none", id |-> 0]

\* what the awaited collection method did
NoAnswer == [kind |-> "none", value |-> "none", error |-> NoError]

RestOff ==
  [pc |-> "off", defined |-> {}, getQuery |-> EmptyQuery, handler |-> "none",
   ctx |-> NoCtx, calls |-> <<>>, answer |-> NoAnswer, outcome |-> NoResponse]

Init ==
  /\ store = Fixture
  /\ att = [a \in Attempts |-> Idle]
  /\ sessions = {}
  /\ vpc = "off"
  /\ vPlain = <<>>
  /\ vStored = <<>>
  /\ vResult = NoVerifyResult
  /\ val = ValOff
  /\ rest = RestOff

Next ==
  \E a \in Attempts :
    \/ Login_Begin(a)
    \/ Login_FindOneResolves(a)
    \/ Login_FindOneRejects(a)
    \/ Login_VerifyResolves(a)
    \/ Login_SessionResolves(a)
    \/ Login_SessionRejects(a)
    \/ Authenticate_Begin(a)
    \/ Authenticate_FindOneResolves(a)
    \/ Authenticate_FindOneRejects(a)
    \/ Authenticate_VerifyResolves(a)

Spec == Init /\ [][Next]_vars

(***************************************************************************)
(* The verifier alone, over every digest text up to MaxDigestLen chunks    *)
(***************************************************************************)
DigestAlphabet == {PBKDF2_SHA256, SEP, "1", "a"}

Digests == UNION { [1..n -> DigestAlphabet] : n \in 0..MaxDigestLen }

InitVerify ==
  /\ store = Fixture
  /\ att = [a \in Attempts |-> Idle]
  /\ sessions = {}
  /\ vpc = "ready"
  /\ vPlain \in {Password, WrongPassword}
  /\ vStored \in Digests
  /\ vResult = NoVerifyResult
  /\ val = ValOff
  /\ rest = RestOff

VerifyCall ==
  /\ vpc = "ready"
  /\ vpc' = "done"
  /\ vResult' = VerifyPassword(vPlain, vStored)
  /\ UNCHANGED <<store, att, sessions, vPlain, vStored, val, rest>>

NextVerify == VerifyCall

SpecVerify == InitVerify /\ [][NextVerify]_vars

(***************************************************************************)
(* The validation alone, over every credentials object built from the      *)
(* values below: once through AbstractEmailAuthenticator.validate, once     *)
(* through the @ValidateBody hook of login.                                 *)
(***************************************************************************)
EmailValues ==
  { Absent, NumberValue, StringValue(JohnEmail), StringValue(MalformedEmail),
    StringValue(<<"john", "@">>) }

PasswordValues == { Absent, NumberValue, StringValue(<<"myPassword">>) }

ExtraValues == { Absent, NumberValue, StringValue(<<"bar">>) }

CredentialsObjects ==
  { Credentials(e, p, f, b) :
      e \in EmailValues, p \in PasswordValues, f \in ExtraValues, b \in ExtraValues }

\* validate(credentials): throws ValidationError carrying the violations, or
\* returns the credentials it was given.
ValidateCredentials(credentials) ==
  LET vs == Validate(EmailCredentialsSchema, credentials) IN
  IF Len(vs) > 0
  THEN [kind |-> "thrown", violations |-> vs, value |-> NoBody,
        object |-> credentials]
  ELSE [kind |-> "returned", violations |-> <<>>, value |-> credentials,
        object |-> credentials]

\* The hook of login on a request body: the 400 answer carrying the
\* violations, or the handler is entered and reads ctx.request.body.
ValidateBody(body) ==
  LET r == LoginStart(Idle, body) IN
  IF r.pc = "done"
  THEN [kind |-> "response", violations |-> r.outcome.violations,
        value |-> NoBody, object |-> r.body]
  ELSE [kind |-> "entered", violations |-> <<>>, value |-> r.body,
        object |-> r.body]

InitValidate ==
  /\ store = Fixture
  /\ att = [a \in Attempts |-> Idle]
  /\ sessions = {}
  /\ vpc = "off"
  /\ vPlain = <<>>
  /\ vStored = <<>>
  /\ vResult = NoVerifyResult
  /\ \E object \in CredentialsObjects, via \in {"validate", "ValidateBody"} :
       val = [pc |-> "ready", via |-> via, given |-> object,
              result |-> NoValidation]
  /\ rest = RestOff

Validate_Call ==
  /\ val.pc = "ready"
  /\ val.via = "validate"
  /\ val' = [val EXCEPT !.pc = "done", !.result = ValidateCredentials(val.given)]
  /\ UNCHANGED <<store, att, sessions, vpc, vPlain, vStored, vResult, rest>>

ValidateBody_Call ==
  /\ val.pc = "ready"
  /\ val.via = "ValidateBody"
  /\ val' = [val EXCEPT !.pc = "done", !.result = ValidateBody(val.given)]
  /\ UNCHANGED <<store, att, sessions, vpc, vPlain, vStored, vResult, rest>>

NextValidate == Validate_Call \/ ValidateBody_Call

SpecValidate == InitValidate /\ [][NextValidate]_vars

(***************************************************************************)
(* RestController: one request to one of its handlers, the collection      *)
(* service behind it defining any subset of its methods.  Each handler is  *)
(* one definition per stretch between two awaits, mapping the request's    *)
(* record to its next value.                                               *)
(***************************************************************************)
CollectionMethods ==
  {"createMany", "createOne", "findMany", "findOne", "removeOne", "updateOne"}

Handlers ==
  {"delete", "deleteById", "get", "getById", "patch", "patchById", "post",
   "postById", "put", "putById"}

RequestIds == {1, 2}

RequestBodies == {"body1", "body2"}

\* what a collection method resolves with, told apart by reference
Objects == {"objects1", "objects2"}

ObjectDoesNotExist == [class |-> "ObjectDoesNotExist", ref |-> 1]

CollectionErrors ==
  { ObjectDoesNotExist, [class |-> "Error", ref |-> 2], [class |-> "Error", ref |-> 3],
    [class |-> "PermissionDenied", ref |-> 4] }

isObjectDoesNotExist(error) == error.class = "ObjectDoesNotExist"

\* getQuery(ctx): {} unless the concrete controller overrides it.
GetQueries == { EmptyQuery, [foo |-> "bar", id |-> 0] }

\* { ...this.getQuery(ctx), id: ctx.request.params.id }
QueryById(r) == [r.getQuery EXCEPT !.id = r.ctx.id]

HttpResponse(r, class, content) ==
  [r EXCEPT !.pc = "done",
            !.outcome = [kind |-> "returned", class |-> class,
                         content |-> content, error |-> NoError]]

Throw(r, error) ==
  [r EXCEPT !.pc = "done",
            !.outcome = [kind |-> "thrown", class |-> "", content |-> "none",
                         error |-> error]]

\* await collection.method(query, data): the call is made and awaited.
CollectionCall(r, method, query, data) ==
  [r EXCEPT !.pc = "await",
            !.calls = Append(@, [method |-> method, query |-> query,
                                 data |-> data])]

delete(r) == HttpResponse(r, "HttpResponseMethodNotAllowed", "none")

deleteById(r) ==
  IF "removeOne" \notin r.defined
  THEN HttpResponse(r, "HttpResponseNotImplemented", "none")
  ELSE CollectionCall(r, "removeOne", QueryById(r), "none")

deleteById_resolved(r, value) == HttpResponse(r, "HttpResponseOK", value)

deleteById_rejected(r, error) ==
  IF isObjectDoesNotExist(error)
  THEN HttpResponse(r, "HttpResponseNotFound", "none")
  ELSE Throw(r, error)

get(r) ==
  IF "findMany" \notin r.defined
  THEN HttpResponse(r, "HttpResponseNotImplemented", "none")
  ELSE CollectionCall(r, "findMany", r.getQuery, "none")

get_resolved(r, value) == HttpResponse(r, "HttpResponseOK", value)

\* no try/catch around findMany: whatever it rejects with leaves the handler
get_rejected(r, error) == Throw(r, error)

getById(r) ==
  IF "findOne" \notin r.defined
  THEN HttpResponse(r, "HttpResponseNotImplemented", "none")
  ELSE CollectionCall(r, "findOne", QueryById(r), "none")

getById_resolved(r, value) == HttpResponse(r, "HttpResponseOK", value)

\* Faulty variant: every rejection is answered 404.
getById_rejected_AlwaysNotFound(r, error) ==
  HttpResponse(r, "HttpResponseNotFound", "none")

getById_rejected(r, error) ==
  IF isObjectDoesNotExist(error)
  THEN HttpResponse(r, "HttpResponseNotFound", "none")
  ELSE Throw(r, error)

patch(r) == HttpResponse(r, "HttpResponseMethodNotAllowed", "none")

\* Faulty variant: the guard tests findOne, the call is to updateOne.
patchById_GuardsFindOne(r) ==
  IF "findOne" \notin r.defined
  THEN HttpResponse(r, "HttpResponseNotImplemented", "none")
  ELSE CollectionCall(r, "updateOne", QueryById(r), r.ctx.body)

patchById(r) ==
  IF "updateOne" \notin r.defined
  THEN HttpResponse(r, "HttpResponseNotImplemented", "none")
  ELSE CollectionCall(r, "updateOne", QueryById(r), r.ctx.body)

patchById_resolved(r, value) == HttpResponse(r, "HttpResponseOK", value)

patchById_rejected(r, error) ==
  IF isObjectDoesNotExist(error)
  THEN HttpResponse(r, "HttpResponseNotFound", "none")
  ELSE Throw(r, error)

post(r) ==
  IF "createOne" \notin r.defined
  THEN HttpResponse(r, "HttpResponseNotImplemented", "none")
  ELSE CollectionCall(r, "createOne", EmptyQuery, r.ctx.body)

post_resolved(r, value) == HttpResponse(r, "HttpResponseCreated", value)

\* no try/catch around createOne
post_rejected(r, error) == Throw(r, error)

postById(r) == HttpResponse(r, "HttpResponseMethodNotAllowed", "none")

put(r) == HttpResponse(r, "HttpResponseMethodNotAllowed", "none")

putById(r) ==
  IF "updateOne" \notin r.defined
  THEN HttpResponse(r, "HttpResponseNotImplemented", "none")
  ELSE CollectionCall(r, "updateOne", QueryById(r), r.ctx.body)

putById_resolved(r, value) == HttpResponse(r, "HttpResponseOK", value)

putById_rejected(r, error) ==
  IF isObjectDoesNotExist(error)
  THEN HttpResponse(r, "HttpResponseNotFound", "none")
  ELSE Throw(r, error)

InitRest ==
  /\ store = Fixture
  /\ att = [a \in Attempts |-> Idle]
  /\ sessions = {}
  /\ vpc = "off"
  /\ vPlain = <<>>
  /\ vStored = <<>>
  /\ vResult = NoVerifyResult
  /\ val = ValOff
  /\ \E defined \in SUBSET CollectionMethods, q \in GetQueries :
       rest = [RestOff EXCEPT !.pc = "ready", !.defined = defined, !.getQuery = q]

Unchanged_rest ==
  UNCHANGED <<store, att, sessions, vpc, vPlain, vStored, vResult, val>>

\* The framework routes a request to the handler.
Rest_Request ==
  /\ rest.pc = "ready"
  /\ \E h \in Handlers, id \in RequestIds, body \in RequestBodies :
       LET r == [rest EXCEPT !.handler = h, !.ctx = [id |-> id, body |-> body]] IN
       rest' = CASE h = "delete" -> delete(r)
                 [] h = "deleteById" -> deleteById(r)
                 [] h = "get" -> get(r)
                 [] h = "getById" -> getById(r)
                 [] h = "patch" -> patch(r)
                 [] h = "patchById" -> patchById(r)
                 [] h = "post" -> post(r)
                 [] h = "postById" -> postById(r)
                 [] h = "put" -> put(r)
                 [] h = "putById" -> putById(r)
  /\ Unchanged_rest

\* The awaited collection method resolves.
Rest_CollectionResolves ==
  /\ rest.pc = "await"
  /\ \E value \in Objects :
       LET r == [rest EXCEPT !.answer = [NoAnswer EXCEPT !.kind = "resolved",
                                                        !.value = value]] IN
       rest' = CASE rest.handler = "deleteById" -> deleteById_resolved(r, value)
                 [] rest.handler = "get" -> get_resolved(r, value)
                 [] rest.handler = "getById" -> getById_resolved(r, value)
                 [] rest.handler = "patchById" -> patchById_resolved(r, value)
                 [] rest.handler = "post" -> post_resolved(r, value)
                 [] rest.handler = "putById" -> putById_resolved(r, value)
  /\ Unchanged_rest

\* The awaited collection method rejects.
Rest_CollectionRejects ==
  /\ rest.pc = "await"
  /\ \E error \in CollectionErrors :
       LET r == [rest EXCEPT !.answer = [NoAnswer EXCEPT !.kind = "rejected",
                                                        !.error = error]] IN
       rest' = CASE rest.handler = "deleteById" -> deleteById_rejected(r, error)
                 [] rest.handler = "get" -> get_rejected(r, error)
                 [] rest.handler = "getById" -> getById_rejected(r, error)
                 [] rest.handler = "patchById" -> patchById_rejected(r, error)
                 [] rest.handler = "post" -> post_rejected(r, error)
                 [] rest.handler = "putById" -> putById_rejected(r, error)
  /\ Unchanged_rest

NextRest == Rest_Request \/ Rest_CollectionResolves \/ Rest_CollectionRejects

SpecRest == InitRest /\ [][NextRest]_vars

(***************************************************************************)
(* Vocabulary of the properties                                            *)
(***************************************************************************)
Done(a) == att[a].pc = "done"

\* The credential rules, stated on the object itself: a string email in
\* email format, a string password, and no other key.
WellFormedCredentials(body) ==
  /\ body.email.t = "string" /\ IsEmailFormat(body.email.v)
  /\ body.password.t = "string"
  /\ body.foo.t = "absent" /\ body.bar.t = "absent"

\* The attempt ended in the validation failure of its entry point:
\* authenticate throws ValidationError, login is answered 400, both
\* carrying the violations.
EndedInValidationError(a) ==
  /\ Done(a)
  /\ Len(att[a].outcome.violations) > 0
  /\ \/ att[a].entry = "authenticate" /\ att[a].outcome.kind = "thrown"
          /\ att[a].outcome.error = "ValidationError"
     \/ att[a].entry = "login" /\ att[a].outcome.kind = "returned"
          /\ att[a].outcome.status = 400

HasPrincipal(a) ==
  att[a].body.email.t = "string" /\ \E u \in store : u.email = att[a].body.email.v

Principal(a) == CHOOSE u \in store : u.email = att[a].body.email.v

Secret(a) == att[a].body.password.v

\* C1: no lookup and no verification is issued for credentials that have
\* a violation, and an attempt whose credentials have a violation ends in
\* the validation failure with no lookup and no verification issued.
C1_ValidatedBeforeLookup ==
  \A a \in Attempts :
    /\ (att[a].lookups > 0 \/ att[a].verifies > 0)
         => WellFormedCredentials(att[a].body)
    /\ (Done(a) /\ ~WellFormedCredentials(att[a].body))
         => /\ EndedInValidationError(a)
            /\ att[a].lookups = 0 /\ att[a].verifies = 0
            /\ att[a].lookup = "none" /\ att[a].verdict = "none"

C1_Witness ==
  \E a, b \in Attempts :
    /\ att[a].entry = "login" /\ EndedInValidationError(a)
    /\ ~Has(att[a].body, "email")
    /\ att[b].entry = "login" /\ att[b].verifies > 0

\* C2: when the verifier fails with a format error on the looked-up
\* candidate's stored digest, the attempt fails with that very error; it
\* ends neither in the negative result nor in a match.
C2_FormatErrorPropagates ==
  \A a \in Attempts :
    ( /\ Done(a) /\ att[a].lookup = "found" /\ HasPrincipal(a)
      /\ VerifyPassword(Secret(a), Principal(a).password).kind = "error" )
    => /\ att[a].outcome
            = Thrown(VerifyPassword(Secret(a), Principal(a).password).message)
       /\ att[a].outcome.error \in
            { "Password format is incorrect or not supported.",
              "Password format is incorrect (pbkdf2)." }
       /\ att[a].session = 0

C2_Witness ==
  \E a, b \in Attempts :
    /\ Done(a) /\ att[a].entry = "login" /\ att[a].verdict = "error"
    /\ att[a].outcome.error = "Password format is incorrect (pbkdf2)."
    /\ Done(b) /\ att[b].entry = "authenticate" /\ att[b].verdict = "error"
    /\ att[b].outcome.error = "Password format is incorrect or not supported."

\* The uniform negative result of an entry point: authenticate returns
\* null, login redirects to the invalid-credentials page (no cookie).
EndedNegative(a) ==
  /\ Done(a)
  /\ \/ att[a].entry = "authenticate" /\ att[a].outcome = ReturnedNull
     \/ att[a].entry = "login"
          /\ att[a].outcome = HttpResponseRedirect("/login?invalid_credentials=true")

UnknownIdentifier(a) ==
  Done(a) /\ WellFormedCredentials(att[a].body) /\ ~HasPrincipal(a)

WrongSecret(a) ==
  /\ Done(a) /\ WellFormedCredentials(att[a].body) /\ HasPrincipal(a)
  /\ VerifyPassword(Secret(a), Principal(a).password) = VerifyOk(FALSE)

LookupResolved(a) == att[a].lookup \in {"empty", "found"}

C4_ReturnsStoredRecord ==
  \A a \in Attempts :
    ( /\ Done(a) /\ att[a].entry = "authenticate"
      /\ WellFormedCredentials(att[a].body)
      /\ att[a].lookup = "found" /\ HasPrincipal(a)
      /\ VerifyPassword(Secret(a), Principal(a).password) = VerifyOk(TRUE) )
    => /\ att[a].outcome = ReturnedUser(Principal(a))
       /\ att[a].outcome.user \in store
       /\ att[a].outcome.user.email = att[a].body.email.v
       /\ store = Fixture

C4_Witness ==
  \E a \in Attempts :
    /\ Done(a) /\ att[a].entry = "authenticate" /\ att[a].verdict = "match"
    /\ att[a].outcome.value = "user" /\ att[a].outcome.user.username = "John"

FirstSegment(s) ==
  LET seps == {i \in 1..Len(s) : s[i] = "$"} IN
  IF seps = {} THEN s
  ELSE SubSeq(s, 1, (CHOOSE i \in seps : \A j \in seps : i <= j) - 1)

\* The parameters after the identifier are an iteration count, a salt and
\* a hash: three non-empty segments, the first of them decimal digits.
Pbkdf2Shaped(s) ==
  LET segs == Split(s, "$") IN
  /\ Len(segs) = 4
  /\ IsDigits(segs[2]) /\ Len(segs[3]) > 0 /\ Len(segs[4]) > 0

\* C7: a stored digest whose first "$"-delimited segment is not the
\* recognized identifier, or which has no "$" at all, makes verification
\* fail with exactly "Password format is incorrect or not supported.",
\* whatever the secret.
C7_GenericFormatError ==
  ( /\ vpc = "done"
    /\ \/ ~Contains(vStored, "$")
       \/ FirstSegment(vStored) # <<"pbkdf2_sha256">> )
  => vResult = [kind |-> "error", matched |-> FALSE,
                message |-> "Password format is incorrect or not supported."]

C7_Witness ==
  /\ vpc = "done"
  /\ Len(vStored) = 7 /\ Len(Split(vStored, "$")) = 4
  /\ FirstSegment(vStored) = <<"a">>
  /\ Pbkdf2Shaped(vStored)
  /\ vResult.message = "Password format is incorrect or not supported."

\* C8 as stated: a stored digest whose first segment is the recognized
\* identifier and whose remaining segments are not an iteration count, a
\* salt and a hash makes verification fail with exactly
\* "Password format is incorrect (pbkdf2).".
C8_AsStated ==
  ( /\ vpc = "done"
    /\ FirstSegment(vStored) = <<"pbkdf2_sha256">>
    /\ ~Pbkdf2Shaped(vStored) )
  => vResult = [kind |-> "error", matched |-> FALSE,
                message |-> "Password format is incorrect (pbkdf2)."]

\* C8 (amended): a stored digest that has at least one "$", whose first
\* segment is the recognized identifier and whose remaining segments are
\* not an iteration count, a salt and a hash makes verification fail with
\* exactly "Password format is incorrect (pbkdf2).", whatever the secret.
C8_Pbkdf2FormatError ==
  ( /\ vpc = "done"
    /\ Contains(vStored, "$")
    /\ FirstSegment(vStored) = <<"pbkdf2_sha256">>
    /\ ~Pbkdf2Shaped(vStored) )
  => /\ vResult = [kind |-> "error", matched |-> FALSE,
                   message |-> "Password format is incorrect (pbkdf2)."]
     /\ vResult.message # "Password format is incorrect or not supported."

C8_Witness ==
  /\ vpc = "done"
  /\ vStored = <<"pbkdf2_sha256", "$", "a", "$", "a", "$", "a">>
  /\ vResult.message = "Password format is incorrect (pbkdf2)."

\* The ways an attempt can end, read off its result.
EndedDecided(a) ==
  /\ Done(a)
  /\ \/ EndedNegative(a)
     \/ att[a].entry = "authenticate" /\ att[a].outcome.kind = "returned"
          /\ att[a].outcome.value = "user"
     \/ att[a].entry = "login"
          /\ att[a].outcome = SetSessionCookie(HttpResponseRedirect("/"), a)

EndedInFormatError(a) ==
  /\ Done(a) /\ att[a].outcome.kind = "thrown"
  /\ att[a].outcome.error \in
       { "Password format is incorrect or not supported.",
         "Password format is incorrect (pbkdf2)." }

EndedInCollaboratorFailure(a) ==
  /\ Done(a) /\ att[a].outcome.kind = "thrown"
  /\ att[a].outcome.error \in LookupErrors \cup {"SessionStoreError"}

ExactlyOne(ps) == Cardinality({i \in DOMAIN ps : ps[i]}) = 1

\* C9 as stated: every attempt ends in exactly one of validated-and-decided,
\* validation error, format error.
C9_AsStated ==
  \A a \in Attempts :
    Done(a) => ExactlyOne(<< EndedDecided(a), EndedInValidationError(a),
                             EndedInFormatError(a) >>)

\* C9 (amended): every attempt ends in exactly one of validated-and-decided,
\* validation error, format error, or the propagated failure of a
\* collaborator call (the lookup; in login also the session store); and the
\* error it ends in is the one that occurred.
C9_ExactlyOneOutcome ==
  \A a \in Attempts :
    Done(a) =>
      /\ ExactlyOne(<< EndedDecided(a), EndedInValidationError(a),
                       EndedInFormatError(a), EndedInCollaboratorFailure(a) >>)
      /\ EndedInValidationError(a) <=> ~WellFormedCredentials(att[a].body)
      /\ EndedInFormatError(a) <=> att[a].verdict = "error"
      /\ (att[a].lookup = "failed") => EndedInCollaboratorFailure(a)

C9_Witness ==
  \E a, b \in Attempts :
    /\ Done(a) /\ att[a].entry = "login" /\ att[a].lookup = "failed"
    /\ EndedInCollaboratorFailure(a)
    /\ Done(b) /\ att[b].entry = "login" /\ EndedInValidationError(b)

\* C10: when the lookup call itself fails, the attempt ends in that failure,
\* propagated; it ends neither in the negative result nor in a principal.
C10_LookupFailurePropagates ==
  \A a \in Attempts :
    (Done(a) /\ att[a].lookup = "failed")
    => /\ att[a].outcome = Thrown(att[a].fault)
       /\ att[a].fault \in LookupErrors
       /\ ~EndedNegative(a)
       /\ att[a].verifies = 0 /\ att[a].session = 0

C10_Witness ==
  \E a, b \in Attempts :
    /\ Done(a) /\ att[a].entry = "login" /\ att[a].lookup = "failed"
    /\ att[a].outcome.error = "QueryTimeoutError"
    /\ Done(b) /\ att[b].entry = "authenticate" /\ att[b].lookup = "failed"

\* The last record of an attempt that runs with no other attempt, against
\* the stored rows as first saved, given what its collaborators answer:
\* whether the lookup call rejects (and with what) and whether the session
\* store saves the session.
LoginAlone(a, body, lookupFails, fault, sessionSaved) ==
  LET r1 == LoginStart(Idle, body) IN
  IF r1.pc = "done" THEN r1
  ELSE IF lookupFails
  THEN LoginOnFindOneError([r1 EXCEPT !.lookup = "failed", !.fault = fault], fault)
  ELSE
    LET u == FindOne(Fixture, body.email)
        r2 == LoginOnFindOne([r1 EXCEPT !.lookup = LookupAnswer(u)], u)
    IN IF r2.pc = "done" THEN r2
       ELSE
         LET res == VerifyPassword(body.password.v, r2.user.password)
             r3 == LoginOnVerify([r2 EXCEPT !.verdict = Verdict(res)], res)
         IN IF r3.pc = "done" THEN r3
            ELSE IF sessionSaved THEN LoginOnSession(r3, a)
            ELSE LoginOnSessionError(r3, "SessionStoreError")

AuthenticateAlone(body, lookupFails, fault) ==
  LET r1 == AuthenticateStart(Idle, body) IN
  IF r1.pc = "done" THEN r1
  ELSE IF lookupFails
  THEN AuthenticateOnFindOneError(
         [r1 EXCEPT !.lookup = "failed", !.fault = fault], fault)
  ELSE
    LET u == FindOne(Fixture, body.email)
        r2 == AuthenticateOnFindOne([r1 EXCEPT !.lookup = LookupAnswer(u)], u)
    IN IF r2.pc = "done" THEN r2
       ELSE LET res == VerifyPassword(body.password.v, r2.user.password) IN
            AuthenticateOnVerify([r2 EXCEPT !.verdict = Verdict(res)], res)

SessionSaved(a) == \E s \in sessions : s.token = a

Alone(a) ==
  IF att[a].entry = "login"
  THEN LoginAlone(a, att[a].body, att[a].lookup = "failed", att[a].fault,
                  SessionSaved(a))
  ELSE AuthenticateAlone(att[a].body, att[a].lookup = "failed", att[a].fault)

\* C11: with the attempts' steps interleaved in any order and the stored
\* rows unchanged, every attempt ends as it would have ended run alone on
\* the same input with the same answers of its collaborators; two attempts
\* given the same input and the same answers end alike.
C11_InterleavingIndependent ==
  /\ store = Fixture
  /\ \A a \in Attempts : Done(a) => att[a].outcome = Alone(a).outcome
  /\ \A a, b \in Attempts :
       ( /\ Done(a) /\ Done(b)
         /\ att[a].entry = att[b].entry /\ att[a].body = att[b].body
         /\ att[a].lookup = att[b].lookup /\ att[a].fault = att[b].fault
         /\ SessionSaved(a) <=> SessionSaved(b) )
       => [att[a].outcome EXCEPT !.cookie = 0] = [att[b].outcome EXCEPT !.cookie = 0]

C11_Witness ==
  \E a, b \in Attempts :
    /\ a < b
    /\ att[b].pc = "done" /\ att[b].entry = "login" /\ att[b].verdict = "match"
    /\ SessionSaved(b)
    /\ att[a].pc = "await_verify" /\ att[a].entry = "login"
    /\ att[a].body.email.v = SamEmail

(***************************************************************************)
(* Vocabulary of the validation properties                                 *)
(***************************************************************************)
Validated == val.pc = "done"

\* The call failed with its error: validate threw ValidationError, the hook
\* answered 400; either carries the list of violations.
ValidationFailed == val.result.kind \in {"thrown", "response"}

Violations == val.result.violations

RequiredKeys == {"email", "password"}

MissingKeys(object) == {k \in RequiredKeys : ~Has(object, k)}

ExtraKeys(object) == {k \in {"foo", "bar"} : Has(object, k)}

\* The rules a present field breaks, stated on the object itself.
WrongType(object, k) == Has(object, k) /\ object[k].t # "string"

WrongFormat(object) ==
  object.email.t = "string" /\ ~IsEmailFormat(object.email.v)

ViolationsOf(keyword) == SelectSeq(Violations, LAMBDA v : v.keyword = keyword)

\* C12 as stated: whenever the email or the password field is missing the
\* list holds exactly one violation, a "required" one naming a missing field.
C12_AsStated ==
  (Validated /\ MissingKeys(val.given) # {})
    => /\ ValidationFailed
       /\ Len(Violations) = 1
       /\ Violations[1].keyword = "required"
       /\ Violations[1].param \in MissingKeys(val.given)

\* C12: for a credentials object missing exactly one of email and password
\* and otherwise valid (the field it has is valid, no other key), the
\* validation fails and the list holds exactly one violation, with keyword
\* "required", naming the missing field.
C12_OneRequiredViolation ==
  \A k \in RequiredKeys :
    ( /\ Validated
      /\ MissingKeys(val.given) = {k}
      /\ ExtraKeys(val.given) = {}
      /\ \A j \in RequiredKeys \ {k} : ~WrongType(val.given, j)
      /\ ~WrongFormat(val.given) )
    => /\ ValidationFailed
       /\ Violations = << Violation("required", <<>>, k) >>

C12_Witness ==
  /\ Validated
  /\ val.given = Credentials(Absent, StringValue(<<"myPassword">>), Absent, Absent)
  /\ val.result.kind = "thrown"
  /\ Len(Violations) = 1

\* The rules the object breaks, counted on the object itself: one per
\* missing required field, one per extra key, one per required field of
\* the wrong type, one for an email string not in email format.
BrokenRules(object) ==
  Cardinality(MissingKeys(object)) + Cardinality(ExtraKeys(object))
    + Cardinality({k \in RequiredKeys : WrongType(object, k)})
    + (IF WrongFormat(object) THEN 1 ELSE 0)

\* C13: the list holds one violation for each rule the object breaks, not
\* only the first: a "required" one per missing field, an
\* "additionalProperties" one per extra key, a "type" one per field of the
\* wrong type, a "format" one for a malformed email, and nothing else.
C13_EveryViolationCollected ==
  Validated =>
    /\ ValidationFailed <=> BrokenRules(val.given) > 0
    /\ Len(Violations) = BrokenRules(val.given)
    /\ \A k \in MissingKeys(val.given) :
         \E i \in 1..Len(Violations) : Violations[i] = Violation("required", <<>>, k)
    /\ \A k \in ExtraKeys(val.given) :
         \E i \in 1..Len(Violations) :
           Violations[i] = Violation("additionalProperties", <<>>, k)
    /\ \A k \in RequiredKeys :
         WrongType(val.given, k) =>
           \E i \in 1..Len(Violations) : Violations[i] = Violation("type", <<k>>, "string")
    /\ WrongFormat(val.given) =>
         \E i \in 1..Len(Violations) :
           Violations[i] = Violation("format", <<"email">>, "email")

\* Both required fields missing, and a wrong type together with an extra key.
C13_Witness ==
  /\ Validated
  /\ ValidationFailed
  /\ \/ /\ MissingKeys(val.given) = RequiredKeys
        /\ Len(ViolationsOf("required")) = 2
     \/ /\ WrongType(val.given, "password")
        /\ ExtraKeys(val.given) = {"foo"}
        /\ Len(ViolationsOf("type")) = 1
        /\ Len(ViolationsOf("additionalProperties")) = 1

\* Apart from its extra keys the object is valid.
OtherwiseValid(object) ==
  /\ MissingKeys(object) = {}
  /\ \A k \in RequiredKeys : ~WrongType(object, k)
  /\ ~WrongFormat(object)

\* C14: for an object with keys other than email and password the
\* validation fails with one "additionalProperties" violation per extra
\* key, each naming its key; if the object is otherwise valid the list
\* holds nothing else.
C14_OneViolationPerExtraKey ==
  (Validated /\ ExtraKeys(val.given) # {}) =>
    /\ ValidationFailed
    /\ Len(ViolationsOf("additionalProperties")) = Cardinality(ExtraKeys(val.given))
    /\ \A k \in ExtraKeys(val.given) :
         \E i \in 1..Len(Violations) :
           Violations[i] = Violation("additionalProperties", <<>>, k)
    /\ OtherwiseValid(val.given) =>
         Len(Violations) = Cardinality(ExtraKeys(val.given))

C14_Witness ==
  /\ Validated
  /\ ExtraKeys(val.given) = {"foo", "bar"}
  /\ OtherwiseValid(val.given)
  /\ val.result.kind = "thrown"
  /\ Len(Violations) = 2

Answered == rest.pc = "done"

ByIdHandlers == {"deleteById", "getById", "patchById", "putById"}

\* the collection method each handler relies on
MethodOf(h) ==
  CASE h = "deleteById" -> "removeOne"
    [] h = "get" -> "findMany"
    [] h = "getById" -> "findOne"
    [] h = "patchById" -> "updateOne"
    [] h = "post" -> "createOne"
    [] h = "putById" -> "updateOne"

Returns(class) == rest.outcome.kind = "returned" /\ rest.outcome.class = class

\* C16: a by-id handler whose collection method is defined returns
\* HttpResponseNotFound if the method rejects with an ObjectDoesNotExist,
\* rejects with the very same error object if it rejects with anything
\* else, and returns HttpResponseOK with the resolved value as content if it
\* resolves.
C16_ByIdOutcomes ==
  ( /\ Answered
    /\ rest.handler \in ByIdHandlers
    /\ MethodOf(rest.handler) \in rest.defined )
  => /\ rest.answer.kind \in {"resolved", "rejected"}
     /\ ( rest.answer.kind = "rejected"
           /\ rest.answer.error.class = "ObjectDoesNotExist" )
          => Returns("HttpResponseNotFound")
     /\ ( rest.answer.kind = "rejected"
           /\ rest.answer.error.class # "ObjectDoesNotExist" )
          => /\ rest.outcome.kind = "thrown"
             /\ rest.outcome.error = rest.answer.error
     /\ rest.answer.kind = "resolved"
          => /\ Returns("HttpResponseOK")
             /\ rest.outcome.content = rest.answer.value

C16_Witness ==
  /\ Answered
  /\ rest.handler = "putById"
  /\ "updateOne" \in rest.defined
  /\ rest.answer.kind = "rejected"
  /\ rest.answer.error = [class |-> "Error", ref |-> 3]
  /\ rest.outcome.kind = "thrown"

\* C17: if the collection does not define the method a handler relies on
\* (removeOne for deleteById, findMany for get, findOne for getById,
\* updateOne for patchById and putById, createOne for post), the handler
\* returns HttpResponseNotImplemented and no method of the collection is
\* invoked, whatever else the collection defines.
C17_NotImplemented ==
  ( /\ rest.pc \in {"await", "done"}
    /\ rest.handler \in ByIdHandlers \cup {"get", "post"}
    /\ MethodOf(rest.handler) \notin rest.defined )
  => /\ Answered
     /\ Returns("HttpResponseNotImplemented")
     /\ rest.calls = <<>>
     /\ rest.answer = NoAnswer

C17_Witness ==
  /\ Answered
  /\ rest.handler = "patchById"
  /\ rest.defined = CollectionMethods \ {"updateOne"}
  /\ Returns("HttpResponseNotImplemented")
  /\ rest.calls = <<>>

\* C18: within one attempt the steps come in the order validate, resolve,
\* verify, decide: a lookup is issued only for validated credentials and at
\* most once, the verifier is invoked only after the lookup has resolved
\* with a candidate (and at most once), and a decided result comes only
\* after the lookup resolved and, for a candidate, after the verifier
\* settled.
C18_StepOrder ==
  \A a \in Attempts :
    /\ att[a].lookups <= 1
    /\ att[a].verifies <= 1
    /\ att[a].lookups = 1 => WellFormedCredentials(att[a].body)
    /\ att[a].lookup # "none" => att[a].lookups = 1
    /\ att[a].pc = "await_findOne" =>
         att[a].lookups = 1 /\ att[a].lookup = "none" /\ att[a].verifies = 0
    /\ att[a].verifies = 1 =>
         /\ att[a].lookups = 1
         /\ att[a].lookup = "found"
         /\ att[a].user # NoUser
    /\ att[a].pc = "await_verify" =>
         att[a].verifies = 1 /\ att[a].verdict = "none"
    /\ att[a].verdict # "none" => att[a].verifies = 1
    /\ (Done(a) /\ att[a].lookup = "found") => att[a].verdict # "none"
    /\ (Done(a) /\ att[a].lookup = "empty") => att[a].verifies = 0
    /\ (Done(a) /\ att[a].outcome.kind = "returned"
          /\ ~EndedInValidationError(a))
         => att[a].lookup \in {"found", "empty"}

C18_Witness ==
  \E a, b \in Attempts :
    /\ Done(a) /\ att[a].entry = "login"
    /\ att[a].lookups = 1 /\ att[a].verifies = 1 /\ att[a].verdict = "mismatch"
    /\ Done(b) /\ att[b].entry = "login"
    /\ att[b].lookups = 1 /\ att[b].lookup = "empty" /\ att[b].verifies = 0

\* A session of the attempt exists, or its response carries the cookie.
SessionOrCookie(a) ==
  SessionSaved(a) \/ att[a].session # 0 \/ att[a].outcome.cookie # 0

\* The lookup returned a user and verifyPassword returned true for the
\* submitted password.
UserVerified(a) ==
  /\ att[a].lookup = "found"
  /\ att[a].user = FindOne(store, att[a].body.email)
  /\ att[a].user # NoUser
  /\ att[a].verdict = "match"
  /\ VerifyPassword(att[a].body.password.v, att[a].user.password).matched

\* C19: in login a session exists and the cookie is set only after the
\* lookup returned a user and verifyPassword returned true for the
\* submitted password; the session is that user's and the cookie carries
\* its token.  On every other path (no user, mismatch, verifyPassword or
\* the lookup throwing, the body refused) there is no session and no cookie.
C19_SessionOnlyWhenVerified ==
  /\ \A a \in Attempts :
       /\ SessionOrCookie(a) => (att[a].entry = "login" /\ UserVerified(a))
       /\ att[a].outcome.cookie # 0 =>
            /\ SessionSaved(a)
            /\ att[a].outcome.cookie = a
            /\ att[a].outcome.location = "/"
       /\ (Done(a) /\ ~UserVerified(a)) => ~SessionOrCookie(a)
  /\ \A s \in sessions :
       /\ s.token \in Attempts
       /\ UserVerified(s.token)
       /\ s.userId = att[s.token].user.id

C19_Witness ==
  \E a, b \in Attempts :
    /\ Done(a) /\ att[a].entry = "login"
    /\ UserVerified(a) /\ SessionSaved(a) /\ att[a].outcome.cookie = a
    /\ Done(b) /\ att[b].entry = "login"
    /\ att[b].verdict = "mismatch" /\ ~SessionOrCookie(b)

====
